---- MODULE Spec2Model ----
(***************************************************************************)
(* Model of pydruid/db/sqlalchemy.py: the SQLAlchemy dialect of Druid.     *)
(*                                                                         *)
(* The dialect is stateless, so the state of the model is one call of one  *)
(* of its operations as a caller observes it: the operation and its        *)
(* arguments, the value it returned or the exception it raised, the        *)
(* warnings it emitted through util.warn and the statements it executed on *)
(* the connection it was handed.  Call picks an operation and its inputs,  *)
(* Reset forgets the observation again.                                    *)
(*                                                                         *)
(* Python values are records [t |-> type, v |-> value].  Text that the     *)
(* code converts or case-folds (IS_NULLABLE, COLUMN_DEFAULT) is a sequence *)
(* of one-character strings; text that the code only compares or copies    *)
(* (identifiers, URL fields) is a TLA+ string.                             *)
(***************************************************************************)
EXTENDS Integers, Sequences, FiniteSets, TLC

VARIABLES pc, op, args, ret, raised, warnings, executed

vars == <<pc, op, args, ret, raised, warnings, executed>>

-----------------------------------------------------------------------------
(* Bounds of the model *)

\* longest IS_NULLABLE / COLUMN_DEFAULT text
MaxStrLen == 4
\* most rows the SCHEMATA, TABLES and COLUMNS views carry
MaxSchemata == 3
MaxTables == 2
MaxColumns == 2
\* JDBC type codes are drawn from -MaxCode..MaxCode and the codes of the table
MaxCode == 17

-----------------------------------------------------------------------------
(* Python values *)

PyNone == [t |-> "none", v |-> 0]
PyStr(s) == [t |-> "str", v |-> s]
PyInt(n) == [t |-> "int", v |-> n]
PyBool(b) == [t |-> "bool", v |-> b]

\* a == b of Python for the values above: values of different types differ
PyEq(a, b) == a.t = b.t /\ a.v = b.v

\* bool(x): None, 0, False and empty text are false
Truthy(x) ==
    CASE x.t = "none" -> FALSE
      [] x.t = "int" -> x.v # 0
      [] x.t = "bool" -> x.v
      [] x.t = "str" -> Len(x.v) # 0
      [] OTHER -> TRUE

\* a or b
PyOr(a, b) == IF Truthy(a) THEN a ELSE b

-----------------------------------------------------------------------------
(* Outcomes of a call: a returned value or a raised exception, with the    *)
(* warnings emitted and the statements executed on the way.                *)

NoExc == "none"
NoValue == "novalue"

\* exceptions derived from Exception
ExceptionClasses == {"DatabaseError", "ConnectionError", "AttributeError"}
\* exceptions derived from BaseException only
BaseOnlyClasses == {"KeyboardInterrupt"}
\* what connection.execute may raise
ExecuteErrors == {"DatabaseError", "ConnectionError"} \cup BaseOnlyClasses

Returned(value, warns, stmts) ==
    [ret |-> value, raised |-> NoExc, warnings |-> warns, executed |-> stmts]

Raised(exc, warns, stmts) ==
    [ret |-> NoValue, raised |-> exc, warnings |-> warns, executed |-> stmts]

-----------------------------------------------------------------------------
(* jdbc_type_map and _map_jdbc_type *)

jdbc_type_codes == {-6, -5, 1, 3, 4, 5, 6, 7, 8, 12, 16, 91, 93, 1111}

jdbc_type_map(code) ==
    CASE code = -6 -> "BigInteger"
      [] code = -5 -> "BigInteger"
      [] code = 1 -> "String"
      [] code = 3 -> "Float"
      [] code = 4 -> "BigInteger"
      [] code = 5 -> "BigInteger"
      [] code = 6 -> "Float"
      [] code = 7 -> "Float"
      [] code = 8 -> "Float"
      [] code = 12 -> "String"
      [] code = 16 -> "Boolean"
      [] code = 91 -> "DATE"
      [] code = 93 -> "TIMESTAMP"
      [] code = 1111 -> "BLOB"

\* the warning util.warn emits: the column and the code it names
Warning(row) == [column |-> row.COLUMN_NAME, code |-> row.JDBC_TYPE]

\* _map_jdbc_type with the lookup unguarded: a miss raises KeyError
MapJdbcTypeUnguarded(row) ==
    IF row.JDBC_TYPE \in jdbc_type_codes
    THEN Returned(jdbc_type_map(row.JDBC_TYPE), <<>>, <<>>)
    ELSE Raised("KeyError", <<>>, <<>>)

\* _map_jdbc_type(row): the type and the warnings emitted
_map_jdbc_type(row) ==
    IF row.JDBC_TYPE \in jdbc_type_codes
    THEN Returned(jdbc_type_map(row.JDBC_TYPE), <<>>, <<>>)
    ELSE Returned("NullType", <<Warning(row)>>, <<>>)

-----------------------------------------------------------------------------
(* str.lower, get_is_nullable, str and get_default *)

Chars == {"Y", "y", "E", "e", "S", "s", "N", "o", "n"}

LowerChar(c) ==
    CASE c = "Y" -> "y"
      [] c = "E" -> "e"
      [] c = "S" -> "s"
      [] c = "N" -> "n"
      [] c = "O" -> "o"
      [] OTHER -> c

\* str.lower()
Lower(s) == [i \in 1..Len(s) |-> LowerChar(s[i])]

\* get_is_nullable(druid_is_nullable): only text has a lower() method
get_is_nullable(x) ==
    IF x.t = "str"
    THEN Returned(Lower(x.v) = <<"y", "e", "s">>, <<>>, <<>>)
    ELSE Raised("AttributeError", <<>>, <<>>)

Digit(d) == <<"0", "1", "2", "3", "4", "5", "6", "7", "8", "9">>[d + 1]

RECURSIVE NatToText(_)
NatToText(n) ==
    IF n < 10 THEN <<Digit(n)>> ELSE NatToText(n \div 10) \o <<Digit(n % 10)>>

\* str(x)
Str(x) ==
    CASE x.t = "str" -> x.v
      [] x.t = "none" -> <<"N", "o", "n", "e">>
      [] x.t = "int" -> IF x.v < 0 THEN <<"-">> \o NatToText(-x.v) ELSE NatToText(x.v)

\* get_default testing the truth of its argument instead of comparing it to ""
GetDefaultByTruth(x) ==
    IF Truthy(x)
    THEN Returned(PyStr(Str(x)), <<>>, <<>>)
    ELSE Returned(PyNone, <<>>, <<>>)

\* get_default(druid_column_default)
get_default(x) ==
    IF ~PyEq(x, PyStr(<<>>))
    THEN Returned(PyStr(Str(x)), <<>>, <<>>)
    ELSE Returned(PyNone, <<>>, <<>>)

-----------------------------------------------------------------------------
(* The connection: execute(statement) raises or answers with rows.  A      *)
(* statement is the view it selects from and the equalities of its WHERE   *)
(* clause; the engine answers from its catalog.                            *)

Statement(sql, where) == [sql |-> sql, where |-> where]

\* a row satisfies every column = 'value' of the WHERE clause
Matches(row, where) == \A c \in where : row[c[1]] = c[2]

Answer(conn, stmt) ==
    CASE stmt.sql = "SELECT 1" -> <<[one |-> 1]>>
      [] stmt.sql = "SCHEMATA" -> conn.schemata
      [] stmt.sql = "TABLES COUNT" ->
            <<[exists_ |-> \E i \in 1..Len(conn.tables) : Matches(conn.tables[i], stmt.where)]>>
      [] stmt.sql = "TABLES" -> SelectSeq(conn.tables, LAMBDA r : Matches(r, stmt.where))
      [] stmt.sql = "COLUMNS" -> SelectSeq(conn.columns, LAMBDA r : Matches(r, stmt.where))

Execute(conn, stmt) ==
    IF conn.fail # NoExc
    THEN [exc |-> conn.fail, rows |-> <<>>]
    ELSE [exc |-> NoExc, rows |-> Answer(conn, stmt)]

-----------------------------------------------------------------------------
(* do_ping *)

\* do_ping without its try/except
DoPingUnprotected(conn) ==
    LET stmt == Statement("SELECT 1", {})
        r == Execute(conn, stmt)
    IN  IF r.exc = NoExc
        THEN Returned(TRUE, <<>>, <<stmt>>)
        ELSE Raised(r.exc, <<>>, <<stmt>>)

do_ping(conn) ==
    LET stmt == Statement("SELECT 1", {})
        r == Execute(conn, stmt)
    IN  IF r.exc = NoExc
        THEN Returned(TRUE, <<>>, <<stmt>>)
        ELSE IF r.exc \in ExceptionClasses
             THEN Returned(FALSE, <<>>, <<stmt>>)
             ELSE Raised(r.exc, <<>>, <<stmt>>)

-----------------------------------------------------------------------------
(* get_schema_names, has_table, get_table_names *)

RESERVED_SCHEMAS == {"INFORMATION_SCHEMA"}

\* [row.SCHEMA_NAME for row in result if row.SCHEMA_NAME not in RESERVED_SCHEMAS]
RECURSIVE SchemaNamesOf(_)
SchemaNamesOf(rows) ==
    IF rows = <<>> THEN <<>>
    ELSE (IF Head(rows).SCHEMA_NAME \notin RESERVED_SCHEMAS
          THEN <<Head(rows).SCHEMA_NAME>> ELSE <<>>) \o SchemaNamesOf(Tail(rows))

FoldCase(name) == IF name = "information_schema" THEN "INFORMATION_SCHEMA" ELSE name

\* get_schema_names comparing the reserved name without regard to case
GetSchemaNamesFolded(conn) ==
    LET stmt == Statement("SCHEMATA", {})
        r == Execute(conn, stmt)
        kept == SelectSeq(r.rows, LAMBDA row : FoldCase(row.SCHEMA_NAME) \notin RESERVED_SCHEMAS)
    IN  IF r.exc # NoExc
        THEN Raised(r.exc, <<>>, <<stmt>>)
        ELSE Returned([i \in 1..Len(kept) |-> kept[i].SCHEMA_NAME], <<>>, <<stmt>>)

get_schema_names(conn) ==
    LET stmt == Statement("SCHEMATA", {})
        r == Execute(conn, stmt)
    IN  IF r.exc # NoExc
        THEN Raised(r.exc, <<>>, <<stmt>>)
        ELSE Returned(SchemaNamesOf(r.rows), <<>>, <<stmt>>)

\* has_table filtering by the schema it is given as well
HasTableInSchema(conn, table_name, schema) ==
    LET stmt == Statement("TABLES COUNT",
                    {<<"TABLE_NAME", table_name>>}
                    \cup (IF Truthy(schema) THEN {<<"TABLE_SCHEMA", schema.v>>} ELSE {}))
        r == Execute(conn, stmt)
    IN  IF r.exc # NoExc
        THEN Raised(r.exc, <<>>, <<stmt>>)
        ELSE Returned(r.rows[1].exists_, <<>>, <<stmt>>)

has_table(conn, table_name, schema) ==
    LET stmt == Statement("TABLES COUNT", {<<"TABLE_NAME", table_name>>})
        r == Execute(conn, stmt)
    IN  IF r.exc # NoExc
        THEN Raised(r.exc, <<>>, <<stmt>>)
        ELSE Returned(r.rows[1].exists_, <<>>, <<stmt>>)

\* get_table_names answering an execute that failed with no tables
GetTableNamesSwallowing(conn, schema) ==
    LET stmt == Statement("TABLES",
                    IF Truthy(schema) THEN {<<"TABLE_SCHEMA", schema.v>>} ELSE {})
        r == Execute(conn, stmt)
    IN  Returned([i \in 1..Len(r.rows) |-> r.rows[i].TABLE_NAME], <<>>, <<stmt>>)

get_table_names(conn, schema) ==
    LET stmt == Statement("TABLES",
                    IF Truthy(schema) THEN {<<"TABLE_SCHEMA", schema.v>>} ELSE {})
        r == Execute(conn, stmt)
    IN  IF r.exc # NoExc
        THEN Raised(r.exc, <<>>, <<stmt>>)
        ELSE Returned([i \in 1..Len(r.rows) |-> r.rows[i].TABLE_NAME], <<>>, <<stmt>>)

-----------------------------------------------------------------------------
(* get_columns *)

\* the list comprehension of get_columns from row i on: the descriptors
\* built so far and the warnings emitted so far; ends at the first row
\* whose descriptor raises
RECURSIVE ColumnsOf(_, _, _, _)
ColumnsOf(rows, i, built, warns) ==
    IF i > Len(rows) THEN [exc |-> NoExc, columns |-> built, warnings |-> warns]
    ELSE LET row == rows[i]
             type == _map_jdbc_type(row)
             nullable == get_is_nullable(row.IS_NULLABLE)
             default == get_default(row.COLUMN_DEFAULT)
         IN  IF type.raised # NoExc
             THEN [exc |-> type.raised, columns |-> <<>>, warnings |-> warns]
             ELSE IF nullable.raised # NoExc
             THEN [exc |-> nullable.raised, columns |-> <<>>,
                   warnings |-> warns \o type.warnings]
             ELSE ColumnsOf(rows, i + 1,
                      Append(built, [name |-> row.COLUMN_NAME,
                                     type |-> type.ret,
                                     nullable |-> nullable.ret,
                                     default |-> default.ret]),
                      warns \o type.warnings)

get_columns(conn, table_name, schema) ==
    LET stmt == Statement("COLUMNS",
                    {<<"TABLE_NAME", table_name>>}
                    \cup (IF Truthy(schema) THEN {<<"TABLE_SCHEMA", schema.v>>} ELSE {}))
        r == Execute(conn, stmt)
        c == ColumnsOf(r.rows, 1, <<>>, <<>>)
    IN  IF r.exc # NoExc THEN Raised(r.exc, <<>>, <<stmt>>)
        ELSE IF c.exc # NoExc THEN Raised(c.exc, c.warnings, <<stmt>>)
        ELSE Returned(c.columns, c.warnings, <<stmt>>)

-----------------------------------------------------------------------------
(* create_connect_args *)

DEFAULT_PORT == 8082

\* dict.get(key, default)
Get(d, key, default) == IF key \in DOMAIN d THEN d[key] ELSE default

\* {**a, **b}: the later entry of a key wins
Merge(a, b) == [k \in DOMAIN a \cup DOMAIN b |-> IF k \in DOMAIN b THEN b[k] ELSE a[k]]

\* the items of d whose key is not in keys
Without(d, keys) == [k \in DOMAIN d \ keys |-> d[k]]

\* self.context of a dialect constructed without one
EmptyContext == [t |-> "dict", v |-> <<>>]

PyType(name) == [t |-> "type", v |-> name]

DerivedArgs(scheme, url) ==
    [host |-> url.host,
     port |-> PyOr(url.port, PyInt(DEFAULT_PORT)),
     user |-> PyOr(url.username, PyNone),
     password |-> PyOr(url.password, PyNone),
     path |-> url.database,
     scheme |-> PyStr(scheme),
     context |-> EmptyContext,
     header |-> PyBool(PyEq(Get(url.query, "header", PyNone), PyStr("true"))),
     parse_float |-> IF PyEq(Get(url.query, "parse_float_as_decimal", PyNone), PyStr("true"))
                     THEN PyType("decimal.Decimal") ELSE PyType("float"),
     ssl_verify_cert |-> Get(url.query, "ssl_verify_cert", PyBool(TRUE))]

\* create_connect_args copying the whole query string
CreateConnectArgsUnfiltered(scheme, url) ==
    Returned([posargs |-> <<>>, kwargs |-> Merge(url.query, DerivedArgs(scheme, url))],
             <<>>, <<>>)

create_connect_args(scheme, url) ==
    LET standard_args == Without(url.query, {"ssl_verify_cert", "parse_float_as_decimal"})
    IN  Returned([posargs |-> <<>>, kwargs |-> Merge(standard_args, DerivedArgs(scheme, url))],
                 <<>>, <<>>)

-----------------------------------------------------------------------------
(* Inputs *)

Texts == UNION {[1..k -> Chars] : k \in 0..MaxStrLen}

JdbcCodes == (-MaxCode..MaxCode) \cup jdbc_type_codes \cup {92, 1112}

ColumnNames == {"__time", "dim"}

\* what the IS_NULLABLE column of a row may carry
NullableValues == {PyStr(s) : s \in Texts} \cup {PyNone}

\* what the COLUMN_DEFAULT column of a row may carry
DefaultValues == {PyStr(s) : s \in Texts} \cup {PyNone} \cup {PyInt(n) : n \in {-12, 0, 7}}

Seqs(S, n) == UNION {[1..k -> S] : k \in 0..n}

Connection(fail, schemata, tables, columns) ==
    [fail |-> fail, schemata |-> schemata, tables |-> tables, columns |-> columns]

\* a connection whose execute raises exc
FailingConnection(exc) == Connection(exc, <<>>, <<>>, <<>>)

SchemaNames == {"druid", "sys", "INFORMATION_SCHEMA", "information_schema"}

SchemataRows == [SCHEMA_NAME : SchemaNames]

TableNames == {"foo", "FOO", "bar"}

TableRows == [TABLE_SCHEMA : {"druid", "sys"}, TABLE_NAME : TableNames]

\* the schema argument of an introspection call
SchemaArgs == {PyNone, PyStr(""), PyStr("druid"), PyStr("sys")}

\* the columns of table foo as the COLUMNS view may list them
ColumnRows ==
    [COLUMN_NAME : ColumnNames,
     JDBC_TYPE : {12, 92},
     IS_NULLABLE : {PyStr(<<"Y", "E", "S">>), PyStr(<<"n", "o">>), PyNone},
     COLUMN_DEFAULT : {PyStr(<<>>), PyStr(<<"N", "o", "n", "e">>), PyNone}]

InTable(schema, table, row) ==
    [TABLE_SCHEMA |-> schema, TABLE_NAME |-> table,
     COLUMN_NAME |-> row.COLUMN_NAME, JDBC_TYPE |-> row.JDBC_TYPE,
     IS_NULLABLE |-> row.IS_NULLABLE, COLUMN_DEFAULT |-> row.COLUMN_DEFAULT]

QueryKeys == {"ssl_verify_cert", "parse_float_as_decimal", "header", "custom", "host"}

QueryValues == {PyStr("true"), PyStr("false")}

Queries == UNION {[K -> QueryValues] : K \in SUBSET QueryKeys}

Urls ==
    [host : {PyStr("host1")},
     port : {PyNone, PyInt(0), PyInt(DEFAULT_PORT), PyInt(9000)},
     username : {PyNone, PyStr("user")},
     password : {PyNone, PyStr("pw")},
     database : {PyNone, PyStr("mydb")},
     query : Queries]

\* DruidDialect.scheme and DruidHTTPSDialect.scheme
Schemes == {"http", "https"}

-----------------------------------------------------------------------------
(* The calls *)

Observe(name, a, out) ==
    /\ pc' = "done"
    /\ op' = name
    /\ args' = a
    /\ ret' = out.ret
    /\ raised' = out.raised
    /\ warnings' = out.warnings
    /\ executed' = out.executed

CallMapJdbcType ==
    /\ pc = "idle"
    /\ \E code \in JdbcCodes, name \in ColumnNames :
        LET row == [COLUMN_NAME |-> name, JDBC_TYPE |-> code]
        IN  Observe("_map_jdbc_type", row, _map_jdbc_type(row))

CallGetIsNullable ==
    /\ pc = "idle"
    /\ \E x \in NullableValues : Observe("get_is_nullable", x, get_is_nullable(x))

CallGetDefault ==
    /\ pc = "idle"
    /\ \E x \in DefaultValues : Observe("get_default", x, get_default(x))

CallCreateConnectArgs ==
    /\ pc = "idle"
    /\ \E scheme \in Schemes, url \in Urls :
        Observe("create_connect_args", [scheme |-> scheme, url |-> url],
                create_connect_args(scheme, url))

CallDoPing ==
    /\ pc = "idle"
    /\ \E fail \in {NoExc} \cup ExecuteErrors :
        LET conn == FailingConnection(fail)
        IN  Observe("do_ping", [conn |-> conn], do_ping(conn))

CallGetSchemaNames ==
    /\ pc = "idle"
    /\ \E conn \in {FailingConnection(e) : e \in ExecuteErrors}
                   \cup {Connection(NoExc, rows, <<>>, <<>>) :
                            rows \in Seqs(SchemataRows, MaxSchemata)} :
        Observe("get_schema_names", [conn |-> conn], get_schema_names(conn))

TablesConnections ==
    {FailingConnection(e) : e \in ExecuteErrors}
    \cup {Connection(NoExc, <<>>, rows, <<>>) : rows \in Seqs(TableRows, MaxTables)}

CallHasTable ==
    /\ pc = "idle"
    /\ \E conn \in TablesConnections, table_name \in TableNames, schema \in SchemaArgs :
        Observe("has_table", [conn |-> conn, table_name |-> table_name, schema |-> schema],
                has_table(conn, table_name, schema))

CallGetTableNames ==
    /\ pc = "idle"
    /\ \E conn \in TablesConnections, schema \in SchemaArgs :
        Observe("get_table_names", [conn |-> conn, schema |-> schema],
                get_table_names(conn, schema))

ColumnsConnections ==
    {FailingConnection(e) : e \in ExecuteErrors}
    \cup {Connection(NoExc, <<>>, <<>>, [i \in 1..Len(rows) |-> InTable(s, "foo", rows[i])]) :
             rows \in Seqs(ColumnRows, MaxColumns), s \in {"druid", "sys"}}

CallGetColumns ==
    /\ pc = "idle"
    /\ \E conn \in ColumnsConnections, table_name \in {"foo", "bar"},
          schema \in {PyNone, PyStr("druid"), PyStr("sys")} :
        Observe("get_columns", [conn |-> conn, table_name |-> table_name, schema |-> schema],
                get_columns(conn, table_name, schema))

Reset ==
    /\ pc = "done"
    /\ pc' = "idle"
    /\ op' = "none"
    /\ args' = NoValue
    /\ ret' = NoValue
    /\ raised' = NoExc
    /\ warnings' = <<>>
    /\ executed' = <<>>

Init ==
    /\ pc = "idle"
    /\ op = "none"
    /\ args = NoValue
    /\ ret = NoValue
    /\ raised = NoExc
    /\ warnings = <<>>
    /\ executed = <<>>

Next ==
    \/ CallMapJdbcType
    \/ CallGetIsNullable
    \/ CallGetDefault
    \/ CallCreateConnectArgs
    \/ CallDoPing
    \/ CallGetSchemaNames
    \/ CallHasTable
    \/ CallGetTableNames
    \/ CallGetColumns
    \/ Reset

Spec == Init /\ [][Next]_vars

-----------------------------------------------------------------------------
(* Properties *)

Done(name) == pc = "done" /\ op = name

\* the type the documentation gives each JDBC code of the table
DocumentedType(code) ==
    CASE code \in {-6, -5, 4, 5} -> "BigInteger"
      [] code \in {1, 12} -> "String"
      [] code \in {3, 6, 7, 8} -> "Float"
      [] code = 16 -> "Boolean"
      [] code = 91 -> "DATE"
      [] code = 93 -> "TIMESTAMP"
      [] code = 1111 -> "BLOB"
      [] OTHER -> "NullType"

DocumentedCodes == {-6, -5, 4, 5, 1, 12, 3, 6, 7, 8, 16, 91, 93, 1111}

\* C1: _map_jdbc_type never raises; for a code of the table it returns the
\* documented type and warns of nothing; for any other code it returns
\* NullType and emits exactly one warning, naming the column and the code.
C1_MapJdbcType ==
    Done("_map_jdbc_type") =>
        /\ raised = NoExc
        /\ ret = DocumentedType(args.JDBC_TYPE)
        /\ args.JDBC_TYPE \in DocumentedCodes => warnings = <<>>
        /\ args.JDBC_TYPE \notin DocumentedCodes =>
               /\ ret = "NullType"
               /\ warnings = <<[column |-> args.COLUMN_NAME, code |-> args.JDBC_TYPE]>>

\* an unmapped code was looked up: NullType came back with one warning
C1_Witness ==
    /\ Done("_map_jdbc_type")
    /\ args.JDBC_TYPE = 92
    /\ ret = "NullType"
    /\ Len(warnings) = 1

\* text equal to "yes" when case is ignored
IsYes(s) ==
    /\ Len(s) = 3
    /\ s[1] \in {"y", "Y"}
    /\ s[2] \in {"e", "E"}
    /\ s[3] \in {"s", "S"}

\* C2: get_is_nullable never ends in an error, whatever the IS_NULLABLE
\* column carries (a null value included), and returns true iff the value
\* is "yes" in any letter case.
C2_IsNullableTotal ==
    Done("get_is_nullable") =>
        /\ raised = NoExc
        /\ ret = (args.t = "str" /\ IsYes(args.v))

\* the decimal text of an integer read back
RECURSIVE TextToNat(_)
TextToNat(s) ==
    IF s = <<>> THEN 0
    ELSE 10 * TextToNat(SubSeq(s, 1, Len(s) - 1))
         + (CHOOSE d \in 0..9 : Digit(d) = s[Len(s)])

TextToInt(s) == IF s[1] = "-" THEN -TextToNat(Tail(s)) ELSE TextToNat(s)

\* C3 as claimed: get_default returns None exactly for the empty string and
\* every other input x unmodified (get_default(x) == x).
C3_RoundTripAllInputs ==
    Done("get_default") =>
        /\ raised = NoExc
        /\ PyEq(ret, PyNone) <=> PyEq(args, PyStr(<<>>))
        /\ ~PyEq(args, PyStr(<<>>)) => PyEq(ret, args)

\* C3 amended: get_default returns None exactly for the empty string, every
\* non-empty text unmodified, and any other value as its text form: a null
\* default as the text "None", an integer as its decimal text.
C3_GetDefault ==
    Done("get_default") =>
        /\ raised = NoExc
        /\ PyEq(ret, PyNone) <=> PyEq(args, PyStr(<<>>))
        /\ (args.t = "str" /\ args.v # <<>>) => PyEq(ret, args)
        /\ args.t = "none" => PyEq(ret, PyStr(<<"N", "o", "n", "e">>))
        /\ args.t = "int" => ret.t = "str" /\ TextToInt(ret.v) = args.v

\* the text "None" was given as a default and came back as that text
C3_Witness ==
    /\ Done("get_default")
    /\ PyEq(args, PyStr(<<"N", "o", "n", "e">>))
    /\ PyEq(ret, PyStr(<<"N", "o", "n", "e">>))

\* the keyword arguments create_connect_args sets itself
ExplicitArgs ==
    {"host", "port", "user", "password", "path", "scheme", "context", "header",
     "parse_float", "ssl_verify_cert"}

\* C4 as claimed: every query parameter other than ssl_verify_cert and
\* parse_float_as_decimal is a keyword argument of the same key with its value
\* verbatim; parse_float_as_decimal is never a key and ssl_verify_cert holds
\* only the derived value.
C4_PassthroughAllOthers ==
    Done("create_connect_args") =>
        LET q == args.url.query
            kw == ret.kwargs
        IN  /\ \A k \in DOMAIN q \ {"ssl_verify_cert", "parse_float_as_decimal"} :
                 k \in DOMAIN kw /\ PyEq(kw[k], q[k])
            /\ "parse_float_as_decimal" \notin DOMAIN kw
            /\ PyEq(kw["ssl_verify_cert"], Get(q, "ssl_verify_cert", PyBool(TRUE)))

\* C4 amended: every query parameter other than ssl_verify_cert and
\* parse_float_as_decimal whose key is not one of the arguments the builder
\* sets itself is a keyword argument of the same key with its value verbatim;
\* a parameter named like such an argument (header, host) is replaced by the
\* value the builder derives; no other key appears, parse_float_as_decimal is
\* never a key and ssl_verify_cert holds only the derived value.
C4_Passthrough ==
    Done("create_connect_args") =>
        LET q == args.url.query
            kw == ret.kwargs
        IN  /\ raised = NoExc
            /\ ret.posargs = <<>>
            /\ DOMAIN kw = ExplicitArgs
                           \cup (DOMAIN q \ {"ssl_verify_cert", "parse_float_as_decimal"})
            /\ \A k \in DOMAIN q \ ({"parse_float_as_decimal"} \cup ExplicitArgs) :
                 PyEq(kw[k], q[k])
            /\ "header" \in DOMAIN q =>
                 PyEq(kw["header"], PyBool(PyEq(q["header"], PyStr("true"))))
            /\ "host" \in DOMAIN q => PyEq(kw["host"], args.url.host)
            /\ "parse_float_as_decimal" \notin DOMAIN kw
            /\ PyEq(kw["ssl_verify_cert"], Get(q, "ssl_verify_cert", PyBool(TRUE)))

\* a URL with both special parameters, header and a custom one was built
C4_Witness ==
    /\ Done("create_connect_args")
    /\ DOMAIN args.url.query =
         {"ssl_verify_cert", "parse_float_as_decimal", "header", "custom"}
    /\ PyEq(args.url.query["ssl_verify_cert"], PyStr("false"))
    /\ PyEq(ret.kwargs["custom"], args.url.query["custom"])
    /\ PyEq(ret.kwargs["ssl_verify_cert"], PyStr("false"))

\* C5: the port argument is the URL's port whenever the URL carries one, and
\* is 8082 exactly when it carries none (or carries 8082 itself).
C5_PortFromUrl ==
    Done("create_connect_args") =>
        LET port == args.url.port
            built == ret.kwargs["port"]
        IN  /\ port.t = "int" => PyEq(built, port)
            /\ port.t = "none" => PyEq(built, PyInt(8082))
            /\ PyEq(built, PyInt(8082)) => (port.t = "none" \/ PyEq(port, PyInt(8082)))

\* the i-th smallest member of a set of numbers
Nth(S, i) == CHOOSE n \in S : Cardinality({m \in S : m <= n}) = i

\* the names of rows other than INFORMATION_SCHEMA, in the order of rows
KeptNames(rows) ==
    LET keep == {i \in 1..Len(rows) : rows[i].SCHEMA_NAME # "INFORMATION_SCHEMA"}
    IN  [j \in 1..Cardinality(keep) |-> rows[Nth(keep, j)].SCHEMA_NAME]

\* C6: get_schema_names returns the names of the SCHEMATA result set that are
\* not exactly INFORMATION_SCHEMA: each one kept, duplicates and other
\* spellings included, in the order of the result set, and nothing else.
C6_SchemaNames ==
    (Done("get_schema_names") /\ args.conn.fail = NoExc) =>
        /\ raised = NoExc
        /\ ret = KeptNames(args.conn.schemata)

\* a result set with the reserved name, another spelling of it and a
\* duplicate was filtered
C6_Witness ==
    /\ Done("get_schema_names")
    /\ args.conn.fail = NoExc
    /\ args.conn.schemata = <<[SCHEMA_NAME |-> "sys"],
                              [SCHEMA_NAME |-> "INFORMATION_SCHEMA"],
                              [SCHEMA_NAME |-> "information_schema"]>>
    /\ ret = <<"sys", "information_schema">>

\* C7 as claimed: do_ping executes one SELECT 1, returns true iff it
\* succeeds, and returns false without raising whatever the execution raises.
C7_PingSwallowsAll ==
    Done("do_ping") =>
        /\ executed = <<Statement("SELECT 1", {})>>
        /\ raised = NoExc
        /\ ret = (args.conn.fail = NoExc)

\* C7 amended: do_ping executes exactly one SELECT 1 and returns true iff it
\* succeeds; when the execution raises an exception derived from Exception,
\* do_ping returns false and raises nothing; an exception derived from
\* BaseException only (KeyboardInterrupt) reaches the caller.
C7_Ping ==
    Done("do_ping") =>
        /\ executed = <<Statement("SELECT 1", {})>>
        /\ args.conn.fail = NoExc => (raised = NoExc /\ ret = TRUE)
        /\ args.conn.fail \in {"DatabaseError", "ConnectionError"} =>
             (raised = NoExc /\ ret = FALSE)
        /\ args.conn.fail = "KeyboardInterrupt" =>
             (raised = "KeyboardInterrupt" /\ ret = NoValue)

\* the probe failed with a driver error and do_ping answered false
C7_Witness ==
    /\ Done("do_ping")
    /\ args.conn.fail = "DatabaseError"
    /\ raised = NoExc
    /\ ret = FALSE

\* the descriptor get_columns is to build of a row
Descriptor(row) ==
    [name |-> row.COLUMN_NAME,
     type |-> DocumentedType(row.JDBC_TYPE),
     nullable |-> (row.IS_NULLABLE.t = "str" /\ IsYes(row.IS_NULLABLE.v)),
     default |-> IF PyEq(row.COLUMN_DEFAULT, PyStr(<<>>)) THEN PyNone
                 ELSE PyStr(Str(row.COLUMN_DEFAULT))]

\* C8: for every result set of the COLUMNS query get_columns returns one
\* descriptor per row, in row order, with the row's name, mapped type,
\* nullability and default; an unrecognized type code gives NullType and
\* never aborts the call.
C8_ColumnPerRow ==
    (Done("get_columns") /\ args.conn.fail = NoExc) =>
        LET rows == Answer(args.conn, executed[1])
        IN  /\ raised = NoExc
            /\ Len(ret) = Len(rows)
            /\ \A i \in 1..Len(rows) : ret[i] = Descriptor(rows[i])

IntrospectionCalls == {"get_schema_names", "has_table", "get_table_names", "get_columns"}

\* C9: when execute fails during get_schema_names, has_table,
\* get_table_names or get_columns, the same error reaches the caller: the
\* call returns nothing, warns of nothing and executed its one statement
\* once.
C9_ExecuteErrorsPropagate ==
    (pc = "done" /\ op \in IntrospectionCalls /\ args.conn.fail # NoExc) =>
        /\ raised = args.conn.fail
        /\ ret = NoValue
        /\ warnings = <<>>
        /\ Len(executed) = 1

\* get_table_names ran on a connection that failed and raised its error
C9_Witness ==
    /\ Done("get_table_names")
    /\ args.conn.fail = "DatabaseError"
    /\ raised = "DatabaseError"

\* C10: has_table executes the one statement filtered by TABLE_NAME alone,
\* whatever schema it is given, and answers whether a table of exactly that
\* name exists in any schema.
C10_HasTableIgnoresSchema ==
    Done("has_table") =>
        /\ executed = <<Statement("TABLES COUNT", {<<"TABLE_NAME", args.table_name>>})>>
        /\ args.conn.fail = NoExc =>
             /\ raised = NoExc
             /\ ret = (\E i \in 1..Len(args.conn.tables) :
                          args.conn.tables[i].TABLE_NAME = args.table_name)

\* has_table answered true for schema druid of a table that is only in sys
C10_Witness ==
    /\ Done("has_table")
    /\ args.schema = PyStr("druid")
    /\ args.table_name = "foo"
    /\ args.conn.tables = <<[TABLE_SCHEMA |-> "sys", TABLE_NAME |-> "foo"],
                            [TABLE_SCHEMA |-> "druid", TABLE_NAME |-> "FOO"]>>
    /\ ret = TRUE

====
